---- MODULE Spec2Model ----
(***************************************************************************)
(* Model of app.py: the spreadsheet -> WordPress -> Facebook publishing    *)
(* batch.  Cell values and texts are sequences of one-character strings,   *)
(* so that trimming, case folding, splitting and searching are computed    *)
(* the way the Python code computes them.                                  *)
(***************************************************************************)
EXTENDS Integers, Sequences, FiniteSets, TLC

VARIABLES
    \* the pure text functions, applied to one input at a time
    segIn,      \* [raw, title, content]: the cells handed to the segmenter
    segOut,     \* [done, title, content]: title/content after app.py:319-322
    parseIn,    \* the categories/tags cell handed to parse_int_list
    parseOut,   \* [done, ok, ids]: its result, ok = FALSE when it raised
    \* the batch
    header,     \* the worksheet's header row (sequence of column names)
    sheet,      \* the worksheet's data rows, row k of the sequence being A1 row k + 1
    envOk,      \* whether every required environment variable is set
    wpPosts,    \* ids of the posts that exist in WordPress
    pc,         \* position of process(): idle, loop, write, done, aborted
    abortCause, \* what raised out of process(): none, config, parse, write
    rows,       \* the rows read_rows() returned for this run
    i,          \* the row number of the for loop at app.py:305
    updates,    \* the list "updates" of app.py:303
    wi,         \* position of the write-back loops (app.py:399-405) in their writes
    faults,     \* number of remote failures so far
    runs,       \* number of runs of process() started
    wpCalls,    \* per row: wp_create_or_update calls of this run
    fbCalls,    \* per row: fb_post_after_delay calls of this run
    lastCall,   \* the last remote publish call: its request and response
    lastWrite   \* the last write_cells call: its range, attempts and error

vars == <<segIn, segOut, parseIn, parseOut, header, sheet, envOk, wpPosts, pc,
          abortCause, rows, i, updates, wi, faults, runs, wpCalls,
          fbCalls, lastCall, lastWrite>>

segVars == <<segIn, segOut>>
parseVars == <<parseIn, parseOut>>
batchVars == <<header, sheet, envOk, wpPosts, pc, abortCause, rows, i, updates,
               wi, faults, runs, wpCalls, fbCalls, lastCall, lastWrite>>

(***************************************************************************)
(* Bounds                                                                  *)
(***************************************************************************)
MaxRawLen == 7    \* longest raw text without carriage returns
MaxCrLen == 4     \* longest raw text with carriage returns
MaxTokLen == 5    \* longest categories/tags cell
NumRows == 2      \* data rows of the worksheet
MaxRuns == 2      \* runs of process()
MaxFaults == 2    \* remote failures (WordPress, Facebook, Sheets) in a behaviour
MaxPostId == 3    \* WordPress refuses to create posts beyond this id

(***************************************************************************)
(* Characters and Python's str methods                                     *)
(***************************************************************************)
LF == "\n"
CR == "\r"
SP == " "

\* the characters str.strip() removes
Whitespace == {SP, LF, CR}

RECURSIVE lstrip(_)
lstrip(s) ==
    IF s # <<>> /\ Head(s) \in Whitespace THEN lstrip(Tail(s)) ELSE s

RECURSIVE rstrip(_)
rstrip(s) ==
    IF s # <<>> /\ s[Len(s)] \in Whitespace
    THEN rstrip(SubSeq(s, 1, Len(s) - 1))
    ELSE s

strip(s) == rstrip(lstrip(s))

\* str.lower() on the letters the model's cells use
lower_char(c) ==
    CASE c = "R" -> "r"
      [] c = "E" -> "e"
      [] c = "A" -> "a"
      [] c = "D" -> "d"
      [] c = "Y" -> "y"
      [] OTHER -> c

lower(s) == [k \in 1..Len(s) |-> lower_char(s[k])]

\* s.startswith(t)
startswith(s, t) == Len(s) >= Len(t) /\ SubSeq(s, 1, Len(t)) = t

\* s.find(t): 1-based index of the first occurrence of t in s, 0 when absent
RECURSIVE find_from(_, _, _)
find_from(s, t, k) ==
    IF k + Len(t) - 1 > Len(s) THEN 0
    ELSE IF SubSeq(s, k, k + Len(t) - 1) = t THEN k
    ELSE find_from(s, t, k + 1)

find(s, t) == find_from(s, t, 1)

\* s.replace(old, new): left to right, non-overlapping
RECURSIVE replace(_, _, _)
replace(s, old, new) ==
    IF s = <<>> THEN <<>>
    ELSE IF startswith(s, old)
         THEN new \o replace(SubSeq(s, Len(old) + 1, Len(s)), old, new)
         ELSE <<Head(s)>> \o replace(Tail(s), old, new)

\* s.split(sep) for a one-character sep: a sequence of Len + 1 pieces
RECURSIVE split(_, _)
split(s, sep) ==
    LET k == find(s, <<sep>>) IN
    IF k = 0 THEN <<s>>
    ELSE <<SubSeq(s, 1, k - 1)>> \o split(SubSeq(s, k + 1, Len(s)), sep)

\* sep.join(parts)
RECURSIVE join(_, _)
join(parts, sep) ==
    IF parts = <<>> THEN <<>>
    ELSE IF Len(parts) = 1 THEN parts[1]
    ELSE parts[1] \o <<sep>> \o join(Tail(parts), sep)

(***************************************************************************)
(* split_raw_if_needed (app.py:159-186)                                    *)
(***************************************************************************)
\* the marker literal of app.py:182, shortened to its bracket and one letter
anchor == <<"[", "P">>

\* a segmenter that returns one paragraph as body: the first paragraph after
\* the first that starts with the marker, else the second paragraph
split_raw_one_paragraph(raw) ==
    IF raw = <<>> THEN [title |-> <<>>, body |-> <<>>]
    ELSE
        LET text == replace(replace(raw, <<CR, LF>>, <<LF>>), <<CR>>, <<LF>>)
            pieces == split(text, LF)
            parts == SelectSeq([k \in 1..Len(pieces) |-> strip(pieces[k])],
                               LAMBDA p : p # <<>>)
            marked == {k \in 2..Len(parts) : startswith(parts[k], anchor)}
        IN  [title |-> IF parts = <<>> THEN <<>> ELSE parts[1],
             body |-> IF marked # {}
                      THEN parts[CHOOSE k \in marked : \A j \in marked : k <= j]
                      ELSE IF Len(parts) >= 2 THEN parts[2] ELSE <<>>]

\* app.py:159-186
split_raw_if_needed(raw) ==
    IF raw = <<>> THEN [title |-> <<>>, body |-> <<>>]
    ELSE
        LET text == replace(replace(raw, <<CR, LF>>, <<LF>>), <<CR>>, <<LF>>)
            pieces == split(text, LF)
            parts == [k \in 1..Len(pieces) |-> strip(pieces[k])]
            title == parts[1]
            body == strip(join(Tail(parts), LF))
            k == find(text, anchor)
        IN  [title |-> title,
             body |-> IF k # 0 THEN strip(SubSeq(text, k, Len(text))) ELSE body]

\* app.py:318-322: the row's title and content after the optional split
segment_row(raw, title, content) ==
    IF raw # <<>> /\ (title = <<>> \/ content = <<>>)
    THEN LET tc == split_raw_if_needed(raw) IN
         [title |-> IF title # <<>> THEN title ELSE tc.title,
          content |-> IF content # <<>> THEN content ELSE tc.body]
    ELSE [title |-> title, content |-> content]

(***************************************************************************)
(* parse_int_list (app.py:333-339)                                         *)
(***************************************************************************)
FWCOMMA == "fw,"       \* the full-width comma U+FF0C
SUP2 == "sup2"         \* U+00B2: str.isdigit() is True, int() raises ValueError

Digits == <<"0", "1", "2", "3", "4", "5", "6", "7", "8", "9">>
DecimalDigits == {Digits[k] : k \in 1..Len(Digits)}
DecimalValue(c) == (CHOOSE k \in 1..Len(Digits) : Digits[k] = c) - 1
IsDigitChars == DecimalDigits \cup {SUP2}

\* str.isdigit(): non-empty and every character is a digit character
isdigit(x) == x # <<>> /\ \A k \in 1..Len(x) : x[k] \in IsDigitChars

\* int(x) succeeds exactly on decimal digits
int_ok(x) == x # <<>> /\ \A k \in 1..Len(x) : x[k] \in DecimalDigits

RECURSIVE int(_)
int(x) ==
    IF x = <<>> THEN 0
    ELSE 10 * int(SubSeq(x, 1, Len(x) - 1)) + DecimalValue(x[Len(x)])

RECURSIVE parse_tokens(_)
parse_tokens(toks) ==
    IF toks = <<>> THEN [ok |-> TRUE, ids |-> <<>>]
    ELSE
        LET x == strip(Head(toks))
            rest == parse_tokens(Tail(toks))
        IN  IF ~isdigit(x) THEN rest
            ELSE IF ~int_ok(x) THEN [ok |-> FALSE, ids |-> <<>>]
            ELSE IF ~rest.ok THEN rest
            ELSE [ok |-> TRUE, ids |-> <<int(x)>> \o rest.ids]

parse_int_list(s) == parse_tokens(split(replace(s, <<FWCOMMA>>, <<",">>), ","))

(***************************************************************************)
(* The pure functions under bounded inputs                                 *)
(***************************************************************************)
Texts(chars, n) == UNION {[1..k -> chars] : k \in 0..n}

SegChars == {"P", "[", LF, SP}
RawTexts == Texts(SegChars, MaxRawLen) \cup Texts(SegChars \cup {CR}, MaxCrLen)
GivenTexts == {<<>>, <<"T">>}

TokChars == {"1", "2", ",", FWCOMMA, SP, "x", SUP2}
TokenStrings == Texts(TokChars, MaxTokLen)

SegIdle == /\ segIn = [raw |-> <<>>, title |-> <<>>, content |-> <<>>]
           /\ segOut = [done |-> FALSE, title |-> <<>>, content |-> <<>>]

ParseIdle == /\ parseIn = <<>>
             /\ parseOut = [done |-> FALSE, ok |-> TRUE, ids |-> <<>>]

\* app.py:308-310 and 318-322 on one row's raw, title and content cells
SegmentRow ==
    /\ ~segOut.done
    /\ LET tc == segment_row(strip(segIn.raw), strip(segIn.title),
                             strip(segIn.content))
       IN  segOut' = [done |-> TRUE, title |-> tc.title, content |-> tc.content]
    /\ UNCHANGED <<segIn, parseVars, batchVars>>

\* app.py:341: parse_int_list on one categories cell, as get() returns it
ParseCell ==
    /\ ~parseOut.done
    /\ LET r == parse_int_list(strip(parseIn))
       IN  parseOut' = [done |-> TRUE, ok |-> r.ok, ids |-> r.ids]
    /\ UNCHANGED <<parseIn, segVars, batchVars>>

(***************************************************************************)
(* The worksheet (app.py:120-156, 390-405)                                 *)
(***************************************************************************)
Max(S) == CHOOSE x \in S : \A y \in S : y <= x

\* name.strip().lower() on the header names the model's worksheets use
norm_name(name) ==
    CASE name = " Status" -> "status"
      [] name = "Post_ID" -> "post_id"
      [] OTHER -> name

\* header_index_map(header)[key] as a 1-based index, 0 for a missing key;
\* of two columns with the same name the later one wins
header_index_map(hdr, key) ==
    LET S == {k \in 1..Len(hdr) : norm_name(hdr[k]) = key}
    IN  IF S = {} THEN 0 ELSE Max(S)

get(row, hdr, key) ==
    LET idx == header_index_map(hdr, key)
    IN  IF idx = 0 \/ idx > Len(row) THEN <<>> ELSE strip(row[idx])

\* the Sheets API leaves out the empty cells at the end of a row and the
\* empty rows at the end of the range
RECURSIVE drop_trailing_empty(_)
drop_trailing_empty(s) ==
    IF s # <<>> /\ s[Len(s)] = <<>>
    THEN drop_trailing_empty(SubSeq(s, 1, Len(s) - 1))
    ELSE s

read_rows(sh) ==
    drop_trailing_empty([k \in 1..Len(sh) |-> drop_trailing_empty(sh[k])])

Letters == <<"A", "B", "C", "D", "E", "F", "G", "H", "I", "J", "K", "L", "M",
             "N", "O", "P", "Q", "R", "S", "T", "U", "V", "W", "X", "Y", "Z">>

\* the while loop of col_letter: n, r = divmod(n - 1, 26); s = chr(65 + r) + s
RECURSIVE col_letter_loop(_, _)
col_letter_loop(n, s) ==
    IF n = 0 THEN s
    ELSE col_letter_loop((n - 1) \div 26, <<Letters[((n - 1) % 26) + 1]>> \o s)

col_letter(idx0) == col_letter_loop(idx0 + 1, <<>>)

\* the column an A1 column name denotes to the Sheets API, 1-based
RECURSIVE col_number(_)
col_number(letters) ==
    IF letters = <<>> THEN 0
    ELSE 26 * col_number(SubSeq(letters, 1, Len(letters) - 1))
         + (CHOOSE k \in 1..Len(Letters) : Letters[k] = letters[Len(letters)])

\* values().update(range = a1, body = [[val]]) on the worksheet
sheets_update(sh, a1, val) ==
    [sh EXCEPT ![a1.row - 1][col_number(a1.col)] = val]

\* write_cells: one update call, nothing caught; out is what the API does
write_cells(sh, a1, val, out) ==
    IF out = "ok"
    THEN [raised |-> FALSE, attempts |-> 1, sheet |-> sheets_update(sh, a1, val)]
    ELSE [raised |-> TRUE, attempts |-> 1, sheet |-> sh]

(***************************************************************************)
(* WordPress (app.py:201-222)                                              *)
(***************************************************************************)
RECURSIVE str(_)
str(n) ==
    IF n < 10 THEN <<Digits[n + 1]>>
    ELSE str(n \div 10) \o <<Digits[(n % 10) + 1]>>

\* a publisher that ignores post_id and always posts to the collection
wp_url_create_only(post_id) == <<>>

\* app.py:215-220: the request path below {WP_BASE_URL}/wp-json/wp/v2/posts
wp_url(post_id) == IF post_id # <<>> THEN <<"/">> \o post_id ELSE <<>>

link_of(id) == <<"/", "?", "p", "=">> \o str(id)

\* the posts endpoint: POST /posts creates, POST /posts/<id> updates an
\* existing post and answers 404 for any other id
wp_rest_posts(posts, path) ==
    IF path = <<>>
    THEN LET id == Max(posts \cup {0}) + 1
         IN  IF id > MaxPostId
             THEN [status |-> 500, id |-> 0, posts |-> posts]
             ELSE [status |-> 201, id |-> id, posts |-> posts \cup {id}]
    ELSE LET p == Tail(path)
         IN  IF int_ok(p) /\ int(p) \in posts
             THEN [status |-> 200, id |-> int(p), posts |-> posts]
             ELSE [status |-> 404, id |-> 0, posts |-> posts]

\* a publisher that sends the request a second time when the first raised
wp_create_or_update_retry(posts, post_id, net) ==
    LET r == wp_rest_posts(posts, wp_url(post_id))
    IN  IF net = "fail"
        THEN [raised |-> TRUE, err |-> <<"timeout">>, id |-> 0, link |-> <<>>,
              posts |-> posts, requests |-> 2, path |-> wp_url(post_id)]
        ELSE IF r.status >= 400
        THEN [raised |-> TRUE, err |-> str(r.status), id |-> 0, link |-> <<>>,
              posts |-> r.posts, requests |-> 1, path |-> wp_url(post_id)]
        ELSE [raised |-> FALSE, err |-> <<>>, id |-> r.id, link |-> link_of(r.id),
              posts |-> r.posts, requests |-> 1, path |-> wp_url(post_id)]

\* app.py:201-222: one request; net = "fail": it raises (timeout, connection
\* error); raise_for_status raises on a 4xx or 5xx answer
wp_create_or_update(posts, post_id, net) ==
    LET r == wp_rest_posts(posts, wp_url(post_id))
    IN  IF net = "fail"
        THEN [raised |-> TRUE, err |-> <<"timeout">>, id |-> 0, link |-> <<>>,
              posts |-> posts, requests |-> 1, path |-> wp_url(post_id)]
        ELSE IF r.status >= 400
        THEN [raised |-> TRUE, err |-> str(r.status), id |-> 0, link |-> <<>>,
              posts |-> r.posts, requests |-> 1, path |-> wp_url(post_id)]
        ELSE [raised |-> FALSE, err |-> <<>>, id |-> r.id, link |-> link_of(r.id),
              posts |-> r.posts, requests |-> 1, path |-> wp_url(post_id)]

(***************************************************************************)
(* process(): one row of the for loop (app.py:305-385)                     *)
(***************************************************************************)
READY == <<"r", "e", "a", "d", "y">>
DONE == <<"d", "o", "n", "e">>
DONE_WP == DONE \o <<"_", "w", "p">>
DONE_ALL == DONE \o <<"_", "a", "l", "l">>
ERROR_PREFIX == <<"E", "R", "R", "O", "R", ":", SP>>

\* now_iso(): the model's clock is the number of the run
now_iso(run) == <<"t">> \o str(run)

\* row_updates with the status assigned first
publish_updates_status_first(new_id, link, now) ==
    << <<"status", DONE_WP>>, <<"post_id", new_id>>, <<"wp_link", link>>,
       <<"last_synced", now>> >>

\* app.py:358-361, in the order the dict receives its keys
publish_updates(new_id, link, now) ==
    << <<"post_id", new_id>>, <<"wp_link", link>>, <<"last_synced", now>>,
       <<"status", DONE_WP>> >>

\* app.py:372-373
facebook_updates(now) == << <<"last_synced", now>>, <<"status", DONE_ALL>> >>

\* app.py:381: the except clause, on the row_updates collected so far
error_updates(e) == << <<"last_synced", ERROR_PREFIX \o e>> >>

NoCall == [api |-> "none", row |-> 0, path |-> <<>>, raised |-> FALSE, id |-> 0]

\* a dispatch that publishes done_wp rows again
is_ready_or_done_wp(status) == status \in {READY, DONE_WP}

\* app.py:350: if status == "ready"
is_ready(status) == status = READY

\* a dispatch that takes every status beginning with "done" for done
is_done_prefix(status) == startswith(status, DONE)

\* app.py:365: elif status == "done"
is_done(status) == status = DONE

\* app.py:347-381 for one row: what is called and what row_updates holds
\* afterwards; net is what the network does to the one remote call
process_status(status, title, content, post_id, wp_link, posts, net, run) ==
    IF is_ready(status)
    THEN IF title = <<>> \/ content = <<>>
         THEN [row_updates |-> <<>>, posts |-> posts, wp |-> 0, fb |-> 0,
               raised |-> FALSE, call |-> NoCall]
         ELSE LET resp == wp_create_or_update(posts, post_id, net)
              IN  [row_updates |->
                       IF resp.raised THEN error_updates(resp.err)
                       ELSE publish_updates(str(resp.id), resp.link, now_iso(run)),
                   posts |-> resp.posts, wp |-> resp.requests, fb |-> 0,
                   raised |-> resp.raised,
                   call |-> [api |-> "wp", row |-> 0, path |-> resp.path,
                             raised |-> resp.raised, id |-> resp.id]]
    ELSE IF is_done(status)
    THEN IF wp_link = <<>>
         THEN [row_updates |-> <<>>, posts |-> posts, wp |-> 0, fb |-> 0,
               raised |-> FALSE, call |-> NoCall]
         ELSE [row_updates |->
                   IF net = "fail" THEN error_updates(<<"timeout">>)
                   ELSE facebook_updates(now_iso(run)),
               posts |-> posts, wp |-> 0, fb |-> 1, raised |-> net = "fail",
               call |-> [api |-> "fb", row |-> 0, path |-> wp_link,
                         raised |-> net = "fail", id |-> 0]]
    ELSE [row_updates |-> <<>>, posts |-> posts, wp |-> 0, fb |-> 0,
          raised |-> FALSE, call |-> NoCall]

\* app.py:399-405 flattened: the write_cells calls the write-back makes, in
\* order; a key that is no column of the header is passed over
RECURSIVE row_writes(_, _, _)
row_writes(row_idx, fields, hdr) ==
    IF fields = <<>> THEN <<>>
    ELSE LET key == Head(fields)[1]
             val == Head(fields)[2]
             rest == row_writes(row_idx, Tail(fields), hdr)
         IN  IF header_index_map(hdr, key) = 0 THEN rest
             ELSE <<[a1 |-> [col |-> col_letter(header_index_map(hdr, key) - 1),
                             row |-> row_idx],
                     key |-> key, val |-> val]>> \o rest

RECURSIVE write_plan(_, _)
write_plan(upd, hdr) ==
    IF upd = <<>> THEN <<>>
    ELSE row_writes(Head(upd)[1], Head(upd)[2], hdr) \o write_plan(Tail(upd), hdr)

(***************************************************************************)
(* Worksheets the runs start from                                          *)
(***************************************************************************)
Layouts ==
    { <<"status", "raw", "title", "content", "categories", "Post_ID",
        "wp_link", "last_synced">>,
      <<"wp_link", "content", "title", " Status">> }

Cells(st, raw, ti, co, ca, pid, link) ==
    [status |-> st, raw |-> raw, title |-> ti, content |-> co,
     categories |-> ca, post_id |-> pid, wp_link |-> link,
     last_synced |-> <<>>]

RowTemplates ==
    { Cells(READY, <<"P", LF, LF, "P">>, <<>>, <<>>, <<"1", ",", "1">>, <<>>, <<>>),
      Cells(<<SP, "R", "e", "a", "d", "y", SP>>, <<>>, <<"T">>, <<"C">>, <<>>,
            <<"1">>, link_of(1)),
      Cells(READY, <<>>, <<"T">>, <<"C">>, <<>>, <<"9">>, <<>>),
      Cells(READY, <<>>, <<"T">>, <<"C">>, <<SUP2>>, <<>>, <<>>),
      Cells(DONE, <<>>, <<"T">>, <<"C">>, <<>>, <<"1">>, link_of(1)),
      Cells(<<>>, <<>>, <<>>, <<>>, <<>>, <<>>, <<>>) }

lay_out(hdr, cells) == [k \in 1..Len(hdr) |-> cells[norm_name(hdr[k])]]

NoWrite == [a1 |-> [col |-> <<>>, row |-> 0], key |-> "", attempts |-> 0,
            error |-> "none", raised |-> FALSE]

BatchIdle ==
    /\ pc = "idle"
    /\ abortCause = "none"
    /\ rows = <<>>
    /\ i = 2
    /\ updates = <<>>
    /\ wi = 1
    /\ faults = 0
    /\ runs = 0
    /\ wpCalls = [r \in 1..NumRows |-> 0]
    /\ fbCalls = [r \in 1..NumRows |-> 0]
    /\ lastCall = NoCall
    /\ lastWrite = NoWrite

(***************************************************************************)
(* process() (app.py:291-407)                                              *)
(***************************************************************************)
NetOutcomes == IF faults < MaxFaults THEN {"ok", "fail"} ELSE {"ok"}

WriteOutcomes ==
    IF faults < MaxFaults THEN {"ok", "Connection reset", "Bad Request"}
    ELSE {"ok"}

\* the statement after the for loop: write back, or nothing to write
after_loop(upd, hdr) == IF write_plan(upd, hdr) # <<>> THEN "write" ELSE "done"

\* ensure_env, read_rows and the start of the loop (app.py:292-303)
StartRun ==
    /\ pc \in {"idle", "done", "aborted"}
    /\ runs < MaxRuns
    /\ runs' = runs + 1
    /\ wpCalls' = [r \in 1..NumRows |-> 0]
    /\ fbCalls' = [r \in 1..NumRows |-> 0]
    /\ lastCall' = NoCall
    /\ lastWrite' = NoWrite
    /\ updates' = <<>>
    /\ i' = 2
    /\ wi' = 1
    /\ IF ~envOk
       THEN /\ pc' = "aborted"
            /\ abortCause' = "config"
            /\ rows' = <<>>
       ELSE /\ abortCause' = "none"
            /\ rows' = IF header = <<>> THEN <<>> ELSE read_rows(sheet)
            /\ pc' = IF header = <<>> \/ read_rows(sheet) = <<>>
                     THEN "done" ELSE "loop"
    /\ UNCHANGED <<header, sheet, envOk, wpPosts, faults, segVars, parseVars>>

\* one iteration of the for loop at app.py:305
ProcessRow ==
    /\ pc = "loop"
    /\ i <= Len(rows) + 1
    /\ LET row == rows[i - 1]
           status == lower(get(row, header, "status"))
           tc == segment_row(get(row, header, "raw"), get(row, header, "title"),
                             get(row, header, "content"))
           categories == parse_int_list(get(row, header, "categories"))
           tags == parse_int_list(get(row, header, "tags"))
       IN  IF ~(categories.ok /\ tags.ok)
           THEN /\ pc' = "aborted"
                /\ abortCause' = "parse"
                /\ UNCHANGED <<i, updates, wi, faults, wpPosts, wpCalls,
                               fbCalls, lastCall>>
           ELSE \E net \in NetOutcomes :
                LET res == process_status(status, tc.title, tc.content,
                                          get(row, header, "post_id"),
                                          get(row, header, "wp_link"),
                                          wpPosts, net, runs)
                    upd == IF res.row_updates # <<>>
                           THEN Append(updates, <<i, res.row_updates>>)
                           ELSE updates
                IN  /\ updates' = upd
                    /\ wpPosts' = res.posts
                    /\ wpCalls' = [wpCalls EXCEPT ![i - 1] = @ + res.wp]
                    /\ fbCalls' = [fbCalls EXCEPT ![i - 1] = @ + res.fb]
                    /\ lastCall' = IF res.call.api = "none" THEN lastCall
                                   ELSE [res.call EXCEPT !.row = i]
                    /\ faults' = IF res.call.api # "none" /\ net = "fail"
                                 THEN faults + 1 ELSE faults
                    /\ i' = i + 1
                    /\ wi' = 1
                    /\ pc' = IF i + 1 <= Len(rows) + 1 THEN "loop"
                             ELSE after_loop(upd, header)
                    /\ UNCHANGED abortCause
    /\ UNCHANGED <<header, sheet, envOk, rows, runs, lastWrite, segVars,
                   parseVars>>

\* one write_cells call of the write-back (app.py:399-405)
WriteCell ==
    /\ pc = "write"
    /\ LET plan == write_plan(updates, header) IN
       /\ wi <= Len(plan)
       /\ \E out \in WriteOutcomes :
          LET w == plan[wi]
              r == write_cells(sheet, w.a1, w.val, out)
          IN  /\ sheet' = r.sheet
              /\ lastWrite' = [a1 |-> w.a1, key |-> w.key,
                               attempts |-> r.attempts, error |-> out,
                               raised |-> r.raised]
              /\ faults' = IF r.raised THEN faults + 1 ELSE faults
              /\ IF r.raised
                 THEN /\ pc' = "aborted"
                      /\ abortCause' = "write"
                      /\ wi' = wi
                 ELSE /\ pc' = IF wi + 1 <= Len(plan) THEN "write" ELSE "done"
                      /\ abortCause' = abortCause
                      /\ wi' = wi + 1
    /\ UNCHANGED <<header, envOk, wpPosts, rows, i, updates, runs, wpCalls,
                   fbCalls, lastCall, segVars, parseVars>>

Init ==
    /\ SegIdle
    /\ ParseIdle
    /\ BatchIdle
    /\ header \in Layouts \cup {<<>>}
    /\ sheet \in [1..NumRows -> {lay_out(header, c) : c \in RowTemplates}]
    /\ envOk \in BOOLEAN
    /\ wpPosts = {1}

Next == StartRun \/ ProcessRow \/ WriteCell

Spec == Init /\ [][Next]_vars

BatchFixed ==
    /\ BatchIdle
    /\ header = <<>>
    /\ sheet = <<>>
    /\ envOk = TRUE
    /\ wpPosts = {}

InitSeg ==
    /\ segIn \in [raw : RawTexts, title : GivenTexts, content : GivenTexts]
    /\ segOut = [done |-> FALSE, title |-> <<>>, content |-> <<>>]
    /\ ParseIdle
    /\ BatchFixed

NextSeg == SegmentRow

SpecSeg == InitSeg /\ [][NextSeg]_vars

InitParse ==
    /\ parseIn \in TokenStrings
    /\ parseOut = [done |-> FALSE, ok |-> TRUE, ids |-> <<>>]
    /\ SegIdle
    /\ BatchFixed

NextParse == ParseCell

SpecParse == InitParse /\ [][NextParse]_vars

(***************************************************************************)
(* Properties                                                              *)
(***************************************************************************)
Col(key) == header_index_map(header, key)

\* the cell of a row under the column named key, as stored (not trimmed)
Cell(row, key) ==
    IF Col(key) = 0 \/ Col(key) > Len(row) THEN <<>> ELSE row[Col(key)]

\* the status a cell shows once trimmed and lower-cased
Shown(cell) == lower(strip(cell))

\* the status cells of the model's worksheets that show "ready"
ReadyCells == {READY, <<SP, "R", "e", "a", "d", "y", SP>>}

\* the entries of updates for data row k (A1 row k + 1)
EntriesFor(k) == {e \in 1..Len(updates) : updates[e][1] = k + 1}

HasKey(fields, key) == \E j \in 1..Len(fields) : fields[j][1] = key

FieldVal(fields, key) ==
    fields[CHOOSE j \in 1..Len(fields) : fields[j][1] = key][2]

\* the WordPress attempt for data row k raised in this run
WpFailed(k) ==
    /\ wpCalls[k] > 0
    /\ \E e \in EntriesFor(k) :
          /\ ~HasKey(updates[e][2], "status")
          /\ startswith(FieldVal(updates[e][2], "last_synced"), ERROR_PREFIX)

\* C1: in every run WordPress is called for a row only if the row's status
\* cell, trimmed and lower-cased, reads "ready".
C1_OnlyReadyPublished ==
    \A k \in 1..Len(rows) :
        wpCalls[k] > 0 => Cell(rows[k], "status") \in ReadyCells

\* C1 witness: a row whose status cell is " Ready " has been sent to WordPress.
C1_Witness ==
    \E k \in 1..Len(rows) :
        /\ wpCalls[k] > 0
        /\ Cell(rows[k], "status") = <<SP, "R", "e", "a", "d", "y", SP>>

\* the write of one of data row k's own cells is the one that raised
OwnWriteFailed(k) == lastWrite.raised /\ lastWrite.a1.row = k + 1

\* C2: when the publish attempt of a ready row raised, then once the run is
\* over the row's status, post_id and wp_link cells are what they were, its
\* status still reads ready, and its last_synced cell holds the error string
\* (there being a last_synced column, and the write of that cell not being
\* what failed).
C2_ErrorLeavesReady ==
    \A k \in 1..Len(rows) :
        (/\ pc \in {"done", "aborted"}
         /\ WpFailed(k)
         /\ Col("last_synced") # 0
         /\ ~OwnWriteFailed(k))
        => /\ Cell(sheet[k], "status") = Cell(rows[k], "status")
           /\ Cell(sheet[k], "status") \in ReadyCells
           /\ Cell(sheet[k], "post_id") = Cell(rows[k], "post_id")
           /\ Cell(sheet[k], "wp_link") = Cell(rows[k], "wp_link")
           /\ startswith(Cell(sheet[k], "last_synced"), ERROR_PREFIX)

\* a step makes a WordPress or Facebook call for data row k
RemoteCallFor(k) == wpCalls'[k] > wpCalls[k] \/ fbCalls'[k] > fbCalls[k]

\* no step calls WordPress or Facebook for, or changes a cell of, a row whose
\* status cell shows one of the given statuses
Terminal(statuses) ==
    \A k \in 1..NumRows :
        (Col("status") # 0 /\ Shown(Cell(sheet[k], "status")) \in statuses)
        => (sheet'[k] = sheet[k] /\ ~RemoteCallFor(k))

C4_AtMostOncePerRun ==
    \A k \in 1..NumRows :
        /\ wpCalls[k] <= 1
        /\ wpCalls[k] = 1 => (i > k + 1 /\ Cardinality(EntriesFor(k)) = 1)

\* C4 witness: a row's attempt raised and a later row was attempted after it.
C4_Witness ==
    \E k, m \in 1..Len(rows) : k < m /\ WpFailed(k) /\ wpCalls[m] = 1

\* C5: once ensure_env has passed nothing aborts the batch.
C5_NoAbortAfterConfig == pc = "aborted" => abortCause = "config"

\* C6: a write that fails with "Connection reset" is retried at least once
\* before the error propagates; one that fails otherwise is not retried.
C6_RetryOnConnectionReset ==
    lastWrite.raised =>
        IF lastWrite.error = "Connection reset"
        THEN lastWrite.attempts >= 2
        ELSE lastWrite.attempts = 1

\* C7: a WordPress call for a row with a non-empty post_id goes to that post,
\* never creates a post, answers with that id or raises, and raises when no
\* such post exists; only a call with an empty post_id creates a post.
C7_UpdateByPostId ==
    [][\A k \in 1..Len(rows) :
         wpCalls'[k] > wpCalls[k] =>
            LET pid == get(rows[k], header, "post_id") IN
            IF pid # <<>>
            THEN /\ wpPosts' = wpPosts
                 /\ lastCall'.path = <<"/">> \o pid
                 /\ lastCall'.raised \/ str(lastCall'.id) = pid
                 /\ lastCall'.raised \/ lastCall'.id \in wpPosts
                 /\ (\A n \in wpPosts : str(n) # pid) => lastCall'.raised
            ELSE /\ lastCall'.path = <<>>
                 /\ lastCall'.raised => wpPosts' = wpPosts
                 /\ ~lastCall'.raised =>
                        /\ lastCall'.id \notin wpPosts
                        /\ wpPosts' = wpPosts \cup {lastCall'.id}]_vars

\* C7 witness: a row published under its post_id in the first run (its
\* last_synced is that run's time) is published again in the second run and
\* WordPress answers with the same id, no post having been added.
C7_Witness ==
    /\ runs = 2
    /\ wpPosts = {1}
    /\ \E k \in 1..Len(rows) :
          /\ wpCalls[k] = 1
          /\ lastCall.row = k + 1
          /\ ~lastCall.raised
          /\ get(rows[k], header, "last_synced") = now_iso(1)
          /\ get(rows[k], header, "post_id") = str(lastCall.id)

\* the segmenter ran on a raw cell with no title and no content given
SegmentedRaw == segOut.done /\ segIn.title = <<>> /\ segIn.content = <<>>

\* raw is lines without blanks or carriage returns, the first and the last
\* of them not empty
PlainLines(raw) ==
    /\ raw # <<>>
    /\ \A k \in 1..Len(raw) : raw[k] \notin {SP, CR}
    /\ raw[1] # LF
    /\ raw[Len(raw)] # LF

\* raw is one-line paragraphs, each two separated by exactly one blank line
OneLineParagraphs(raw) ==
    /\ PlainLines(raw)
    /\ \A k \in 1..Len(raw) :
          raw[k] = LF => \/ (raw[k - 1] # LF /\ raw[k + 1] = LF /\ raw[k + 2] # LF)
                         \/ (raw[k - 1] = LF /\ raw[k - 2] # LF /\ raw[k + 1] # LF)

Paragraphs(raw) == SelectSeq(split(raw, LF), LAMBDA p : p # <<>>)

\* the paragraphs after the first that start with the marker
MarkerParagraphs(raw) ==
    {k \in 2..Len(Paragraphs(raw)) : startswith(Paragraphs(raw)[k], anchor)}

\* the places of raw where the marker literal stands
MarkerPlaces(raw) ==
    {k \in 1..Len(raw) : k + Len(anchor) - 1 <= Len(raw)
                         /\ \A j \in 1..Len(anchor) : raw[k + j - 1] = anchor[j]}

Least(S) == CHOOSE x \in S : \A y \in S : x <= y

\* the line breaks of raw, and the first character after the first line break
\* that is none
LineBreaks(raw) == {k \in 1..Len(raw) : raw[k] = LF}
SecondLineStart(raw) ==
    Least({k \in 1..Len(raw) : k > Least(LineBreaks(raw)) /\ raw[k] # LF})

\* C8 as stated: title is the first paragraph; body is the first paragraph
\* after the first that starts with the marker, else the second paragraph,
\* else empty.
C8_OneParagraphBody ==
    (SegmentedRaw /\ OneLineParagraphs(segIn.raw)) =>
        LET ps == Paragraphs(segIn.raw)
            marked == MarkerParagraphs(segIn.raw)
        IN  /\ segOut.title = ps[1]
            /\ segOut.content =
                  IF marked # {} THEN ps[Least(marked)]
                  ELSE IF Len(ps) >= 2 THEN ps[2]
                  ELSE <<>>

\* C8 amended: title is the first line; body is the raw text from the first
\* place the marker literal stands at (in any paragraph, the first one and
\* the middle of a line included) to its end; without a marker, body is
\* all of the raw text after the first line, from its first non-empty line
\* on; body is empty when the raw text is one line without a marker.
C8_BodyToTheEnd ==
    (SegmentedRaw /\ PlainLines(segIn.raw)) =>
        LET raw == segIn.raw
            places == MarkerPlaces(raw)
            breaks == LineBreaks(raw)
        IN  /\ segOut.title =
                  IF breaks = {} THEN raw ELSE SubSeq(raw, 1, Least(breaks) - 1)
            /\ segOut.content =
                  IF places # {} THEN SubSeq(raw, Least(places), Len(raw))
                  ELSE IF breaks # {}
                  THEN SubSeq(raw, SecondLineStart(raw), Len(raw))
                  ELSE <<>>

\* C8 witness: three paragraphs without a marker give the first as title and
\* the second and third, with the blank line between them, as body.
C8_Witness ==
    /\ SegmentedRaw
    /\ segIn.raw = <<"P", LF, LF, "P", LF, LF, "P">>
    /\ segOut.title = <<"P">>
    /\ segOut.content = <<"P", LF, LF, "P">>

\* the tokens of a categories/tags cell: split at either comma, trimmed,
\* the empty ones dropped
Tokens(s) ==
    LET pieces == split(replace(s, <<FWCOMMA>>, <<",">>), ",")
    IN  SelectSeq([k \in 1..Len(pieces) |-> strip(pieces[k])],
                  LAMBDA t : t # <<>>)

RECURSIVE FirstOccurrences(_)
FirstOccurrences(ids) ==
    IF ids = <<>> THEN <<>>
    ELSE LET front == FirstOccurrences(SubSeq(ids, 1, Len(ids) - 1))
             x == ids[Len(ids)]
         IN  IF \E k \in 1..Len(front) : front[k] = x THEN front
             ELSE Append(front, x)

\* C9: the cell resolves, without raising, to the ids of its purely numeric
\* tokens, duplicates removed, in first-occurrence order, and to no more
\* ids than it has distinct tokens.
C9_DistinctIdsInOrder ==
    parseOut.done =>
        LET toks == Tokens(parseIn)
            numeric == SelectSeq(toks, int_ok)
        IN  /\ parseOut.ok
            /\ parseOut.ids =
                  FirstOccurrences([k \in 1..Len(numeric) |-> int(numeric[k])])
            /\ Len(parseOut.ids)
                  <= Cardinality({toks[k] : k \in 1..Len(toks)})

\* C10: no cell is written before the loop has passed every row, and a row
\* whose status this run has set to done_wp already holds, in each of the
\* columns post_id, wp_link and last_synced the header has, what the publish
\* returned.
C10_PostIdBeforeStatus ==
    /\ lastWrite.attempts > 0 => i = Len(rows) + 2
    /\ pc = "loop" => read_rows(sheet) = rows
    /\ \A k \in 1..Len(rows) : \A e \in EntriesFor(k) :
          LET f == updates[e][2] IN
          (/\ HasKey(f, "status")
           /\ FieldVal(f, "status") = DONE_WP
           /\ Cell(sheet[k], "status") = DONE_WP)
          => \A key \in {"post_id", "wp_link", "last_synced"} :
                Col(key) # 0 => Cell(sheet[k], key) = FieldVal(f, key)

\* C10 witness: a write failed and aborted the run after a row's status had
\* been set to done_wp; the row's post_id cell, empty when read, holds the
\* id of the created post.
C10_Witness ==
    /\ pc = "aborted"
    /\ abortCause = "write"
    /\ \E k \in 1..Len(rows) : \E e \in EntriesFor(k) :
          /\ HasKey(updates[e][2], "status")
          /\ Cell(rows[k], "status") \in ReadyCells
          /\ Cell(sheet[k], "status") = DONE_WP
          /\ Cell(rows[k], "post_id") = <<>>
          /\ Cell(sheet[k], "post_id") = FieldVal(updates[e][2], "post_id")
          /\ Cell(sheet[k], "post_id") # <<>>

====
